---- MODULE Spec2Model ----
(***************************************************************************)
(* Model of astrbot_plugin_command2llm (src/main.py).                      *)
(*                                                                         *)
(* Two parts:                                                              *)
(*   - the command matcher, a pure function (_find_best_command_match)     *)
(*     together with the command list builder (_get_all_available_commands)*)
(*     that feeds it; specification SpecMatch;                             *)
(*   - the message interception state machine (handle_message, ai_enable,  *)
(*     ai_disable, ExecuteCommandTool.call) with one coroutine per inbound *)
(*     event and one step per stretch of code between awaits;              *)
(*     specification Spec.                                                 *)
(*                                                                         *)
(* Strings are sequences of characters; a character is a one-element       *)
(* string.  CJK characters are written in pinyin ("qun" for U+7FA4).       *)
(* A float ratio 2.0*M/T is the record [num |-> 2*M, den |-> T]; ratios    *)
(* are compared by cross multiplication.                                   *)
(***************************************************************************)
EXTENDS Integers, Sequences, FiniteSets

VARIABLES
    \* ---- matcher ----
    message,        \* argument `message` of _find_best_command_match
    commands,       \* argument `commands` of _find_best_command_match
    commands_info,  \* value of _get_all_commands_info(): <<[plugin_name, cmd_list]>>
    match_result,   \* value returned by _find_best_command_match
    calls,          \* the matcher-side calls made so far, in order
    \* ---- plugin ----
    enabled,               \* self.enabled
    last_messages,         \* self.last_messages: session_id -> message_str
    session_command_used,  \* keys of self.session_command_used
    tasks,                 \* one handle_message coroutine per dispatched event
    agent_runs             \* session_id -> number of tool_loop_agent calls started

mvars == <<message, commands, commands_info, match_result, calls>>
pvars == <<enabled, last_messages, session_command_used, tasks, agent_runs>>
vars == <<message, commands, commands_info, match_result, calls,
          enabled, last_messages, session_command_used, tasks, agent_runs>>

-----------------------------------------------------------------------------
(* Bounds *)

MaxMsgLen == 3
MaxCmdLen == 1
MaxCmds == 2
MaxEvents == 2

-----------------------------------------------------------------------------
(* Strings *)

Letters == {"a", "b"}
Whitespace == {" ", "\t"}

RECURSIVE SeqsUpTo(_, _)
SeqsUpTo(S, n) ==
    IF n = 0 THEN {<<>>}
    ELSE LET shorter == SeqsUpTo(S, n - 1)
         IN  shorter \cup {Append(s, x) : s \in shorter, x \in S}

\* str.split(): the maximal runs of non-whitespace characters, in order.
RECURSIVE SplitFrom(_, _, _)
SplitFrom(s, i, cur) ==
    IF i > Len(s)
    THEN IF cur = <<>> THEN <<>> ELSE <<cur>>
    ELSE IF s[i] \in Whitespace
         THEN IF cur = <<>>
              THEN SplitFrom(s, i + 1, <<>>)
              ELSE <<cur>> \o SplitFrom(s, i + 1, <<>>)
         ELSE SplitFrom(s, i + 1, Append(cur, s[i]))

Split(s) == SplitFrom(s, 1, <<>>)

\* str.strip(): leading and trailing whitespace removed.
RECURSIVE LStrip(_)
LStrip(s) ==
    IF s # <<>> /\ s[1] \in Whitespace THEN LStrip(Tail(s)) ELSE s

RECURSIVE RStrip(_)
RStrip(s) ==
    IF s # <<>> /\ s[Len(s)] \in Whitespace
    THEN RStrip(SubSeq(s, 1, Len(s) - 1))
    ELSE s

Strip(s) == RStrip(LStrip(s))

\* cmd.split('#')[0]: the text before the first '#'.
RECURSIVE BeforeHash(_)
BeforeHash(s) ==
    IF s = <<>> \/ s[1] = "#" THEN <<>> ELSE <<s[1]>> \o BeforeHash(Tail(s))

StartsWith(s, p) == Len(p) <= Len(s) /\ SubSeq(s, 1, Len(p)) = p

EndsWith(s, p) ==
    Len(p) <= Len(s) /\ SubSeq(s, Len(s) - Len(p) + 1, Len(s)) = p

Contains(s, p) ==
    \E i \in 1..(Len(s) - Len(p) + 1) : SubSeq(s, i, i + Len(p) - 1) = p

-----------------------------------------------------------------------------
(* difflib.SequenceMatcher(None, a, b).ratio(), no junk (isjunk is None and  *)
(* the autojunk heuristic needs len(b) >= 200).  Indices are 0-based and     *)
(* ranges half-open as in difflib: a[i] is a[i+1] here.                      *)

\* length of the common run of a[i:ahi] and b[j:bhi]
RECURSIVE RunLen(_, _, _, _, _, _)
RunLen(a, b, i, ahi, j, bhi) ==
    IF i < ahi /\ j < bhi /\ a[i + 1] = b[j + 1]
    THEN 1 + RunLen(a, b, i + 1, ahi, j + 1, bhi)
    ELSE 0

\* find_longest_match(alo, ahi, blo, bhi): <<i, j, k>>, the longest matching
\* block, the one that starts earliest in a, and of those earliest in b.
find_longest_match(a, b, alo, ahi, blo, bhi) ==
    LET pos == (alo..(ahi - 1)) \X (blo..(bhi - 1))
        k == [p \in pos |-> RunLen(a, b, p[1], ahi, p[2], bhi)]
        hits == {p \in pos : k[p] > 0}
    IN  IF hits = {} THEN <<alo, blo, 0>>
        ELSE LET bestsize == CHOOSE n \in {k[p] : p \in hits} :
                                \A p \in hits : k[p] <= n
                 longest == {p \in hits : k[p] = bestsize}
                 besti == CHOOSE i \in {p[1] : p \in longest} :
                             \A p \in longest : i <= p[1]
                 bestj == CHOOSE j \in {p[2] : p \in {q \in longest : q[1] = besti}} :
                             \A p \in longest : p[1] = besti => j <= p[2]
             IN  <<besti, bestj, bestsize>>

\* get_matching_blocks(): total size of the blocks found by splitting
\* recursively to the left and to the right of the longest match.
RECURSIVE matches(_, _, _, _, _, _)
matches(a, b, alo, ahi, blo, bhi) ==
    LET m == find_longest_match(a, b, alo, ahi, blo, bhi)
        i == m[1]
        j == m[2]
        k == m[3]
    IN  IF k = 0 THEN 0
        ELSE k
             + (IF alo < i /\ blo < j
                THEN matches(a, b, alo, i, blo, j) ELSE 0)
             + (IF i + k < ahi /\ j + k < bhi
                THEN matches(a, b, i + k, ahi, j + k, bhi) ELSE 0)

\* the `length` argument of _calculate_ratio: len(a) + len(b)
length_max(a, b) == IF Len(a) >= Len(b) THEN Len(a) ELSE Len(b)

length(a, b) == Len(a) + Len(b)

\* _calculate_ratio(matches, length): 2.0 * matches / length, 1.0 if length = 0
calculate_ratio(m, l) ==
    IF l # 0 THEN [num |-> 2 * m, den |-> l] ELSE [num |-> 1, den |-> 1]

ratio(a, b) ==
    calculate_ratio(matches(a, b, 0, Len(a), 0, Len(b)), length(a, b))

\* float comparisons
Gt(r, s) == r.num * s.den > s.num * r.den
Ge(r, s) == r.num * s.den >= s.num * r.den
Eq(r, s) == r.num * s.den = s.num * r.den

-----------------------------------------------------------------------------
(* Command2LLMPlugin._get_all_available_commands *)

\* cmd.split('#')[0].strip()
command_name_keep_description(cmd) == Strip(cmd)

command_name(cmd) == Strip(BeforeHash(cmd))

RECURSIVE names_of(_)
names_of(cmd_list) ==
    IF cmd_list = <<>> THEN <<>>
    ELSE LET n == command_name(cmd_list[1])
         IN  (IF n # <<>> THEN <<n>> ELSE <<>>) \o names_of(Tail(cmd_list))

RECURSIVE get_all_available_commands(_)
get_all_available_commands(info) ==
    IF info = <<>> THEN <<>>
    ELSE names_of(info[1].cmd_list) \o get_all_available_commands(Tail(info))

-----------------------------------------------------------------------------
(* Command2LLMPlugin._find_best_command_match *)

None == <<>>
IndexError == <<"IndexError">>

\* best_match = None
best_match_init_pair == <<<<>>, [num |-> 0, den |-> 1]>>

best_match_init == None

\* best_ratio = 0
best_ratio_init == [num |-> 0, den |-> 1]

\* self.threshold = 0.6
threshold == [num |-> 6, den |-> 10]

\* if not message_parts: return None
no_parts_unchecked(message_parts) == FALSE

no_parts(message_parts) == message_parts = <<>>

\* command_candidate = message_parts[0]
command_candidate_last(message_parts) == message_parts[Len(message_parts)]

command_candidate(message_parts) == message_parts[1]

\* if ratio > best_ratio
better_or_equal(r, best_ratio) == Ge(r, best_ratio)

better_above_threshold(r, best_ratio) ==
    Gt(r, best_ratio) /\ Ge(r, threshold)

better(r, best_ratio) == Gt(r, best_ratio)

\* for cmd in commands: ...; return best_match
RECURSIVE scan(_, _, _, _, _)
scan(candidate, cmds, i, best_match, best_ratio) ==
    IF i > Len(cmds) THEN best_match
    ELSE LET r == ratio(candidate, cmds[i])
         IN  IF better(r, best_ratio)
             THEN scan(candidate, cmds, i + 1, <<cmds[i], r>>, r)
             ELSE scan(candidate, cmds, i + 1, best_match, best_ratio)

find_best_command_match(msg, cmds) ==
    LET message_parts == Split(msg)
    IN  IF no_parts(message_parts) THEN None
        ELSE IF message_parts = <<>> THEN IndexError
        ELSE scan(command_candidate(message_parts), cmds, 1,
                  best_match_init, best_ratio_init)

-----------------------------------------------------------------------------
(* Command2LLMPlugin: message interception *)

\* self.wake_word = config.get('wake_word', '/')
wake_word == <<"/">>

\* max_steps=2 of the tool_loop_agent call
max_steps == 2

FakeSuffix == <<"_cmd2llm_fake">>
Sessions == {<<"s1">>, <<"s2">>}

control_commands ==
    { <<"a", "i", "_", "e", "n", "a", "b", "l", "e">>,
      <<"a", "i", "_", "d", "i", "s", "a", "b", "l", "e">>,
      <<"a", "i", "_", "s", "t", "a", "t", "u", "s">>,
      <<"r", "e", "f", "r", "e", "s", "h", "_",
        "c", "o", "m", "m", "a", "n", "d", "s">> }

call_keywords ==
    { <<"bang", "wo">>, <<"qing">>, <<"neng", "fou">>, <<"ke", "yi">>,
      <<"neng", "bu", "neng">>, <<"ru", "he">>, <<"zen", "me">>,
      <<"zen", "yang">>, <<"cha", "kan">>, <<"sou", "suo">>, <<"zhao">>,
      <<"huo", "qu">>, <<"she", "zhi">>, <<"pei", "zhi">>, <<"qi", "dong">>,
      <<"ting", "zhi">>, <<"tian", "qi">>, <<"shi", "jian">>,
      <<"ri", "qi">>, <<"xin", "wen">>, <<"yin", "yue">>,
      <<"shi", "pin">>, <<"tu", "pian">> }

\* a dict entry d[k] = v
Put(d, k, v) == [x \in DOMAIN d \cup {k} |-> IF x = k THEN v ELSE d[x]]
EmptyDict == [x \in {} |-> 0]

\* if not self.enabled: return
PluginDisabled_never == FALSE

PluginDisabled == ~enabled

\* event.message_obj.sender.user_id == event.message_obj.self_id
is_self_message(event) == event.sender_id = event.self_id

\* event.session_id.endswith("_cmd2llm_fake") or
\* event.message_obj.session_id.endswith("_cmd2llm_fake")
is_fake_event(event) ==
    \/ EndsWith(event.session_id, FakeSuffix)
    \/ EndsWith(event.obj_session_id, FakeSuffix)

\* message_str.startswith(self.wake_word) or .startswith('#') or .startswith('!')
is_command_message(message_str) ==
    \/ StartsWith(message_str, wake_word)
    \/ StartsWith(message_str, <<"#">>)
    \/ StartsWith(message_str, <<"!">>)

\* any(message_str == f'{self.wake_word}{cmd}' or message_str == cmd ...)
is_control_command(message_str) ==
    \E cmd \in control_commands :
        message_str = wake_word \o cmd \/ message_str = cmd

\* the keyword loop of _should_call_command
has_call_keyword(message_str) ==
    \E keyword \in call_keywords : Contains(message_str, keyword)

\* return (the coroutine ends)
Return(t) == [tasks EXCEPT ![t].pc = "done"]

\* event.stop_event(); return
StopAndReturn(t) == [tasks EXCEPT ![t].pc = "done", ![t].stopped = TRUE]

\* await self.context.tool_loop_agent(...): the call is made and awaited
CallAgent(t) ==
    LET session_id == tasks[t].event.session_id
    IN  /\ tasks' = [tasks EXCEPT ![t].pc = "await_agent"]
        /\ agent_runs' =
              Put(agent_runs, session_id,
                  IF session_id \in DOMAIN agent_runs
                  THEN agent_runs[session_id] + 1 ELSE 1)

\* the framework dispatches an inbound event to handle_message
Receive(event) ==
    /\ Len(tasks) < MaxEvents
    /\ tasks' = Append(tasks, [event |-> event, pc |-> "start",
                               stopped |-> FALSE, llm_calls |-> 0,
                               tool_calls |-> 0])
    /\ UNCHANGED <<enabled, last_messages, session_command_used, agent_runs>>
    /\ UNCHANGED mvars

\* handle_message up to `await self.context.get_current_chat_provider_id`
HandleMessage(t) ==
    LET event == tasks[t].event
        message_str == Strip(event.message_str)
        session_id == event.session_id
    IN  /\ tasks[t].pc = "start"
        /\ IF PluginDisabled
           THEN tasks' = Return(t) /\ UNCHANGED last_messages
           ELSE IF is_self_message(event)
           THEN tasks' = Return(t) /\ UNCHANGED last_messages
           ELSE IF session_id \in session_command_used
           THEN tasks' = StopAndReturn(t) /\ UNCHANGED last_messages
           ELSE IF is_fake_event(event)
           THEN tasks' = StopAndReturn(t) /\ UNCHANGED last_messages
           ELSE IF is_command_message(message_str)
           THEN tasks' = Return(t) /\ UNCHANGED last_messages
           ELSE IF is_control_command(message_str)
           THEN tasks' = Return(t) /\ UNCHANGED last_messages
           ELSE /\ last_messages' = Put(last_messages, session_id, message_str)
                /\ tasks' = [tasks EXCEPT ![t].pc = "await_provider"]
        /\ UNCHANGED <<enabled, session_command_used, agent_runs>>
        /\ UNCHANGED mvars

\* get_current_chat_provider_id returns or raises; handle_message runs on to
\* the next await: llm_generate (in _should_call_command) or tool_loop_agent
ProviderReturns(t, outcome) ==
    LET event == tasks[t].event
        message_str == Strip(event.message_str)
        session_id == event.session_id
    IN  /\ tasks[t].pc = "await_provider"
        /\ IF outcome \in {"raise", "none"}
           THEN tasks' = Return(t) /\ UNCHANGED agent_runs
           ELSE IF session_id \in session_command_used
           THEN tasks' = StopAndReturn(t) /\ UNCHANGED agent_runs
           ELSE IF has_call_keyword(message_str)
           THEN CallAgent(t)
           ELSE /\ tasks' = [tasks EXCEPT ![t].pc = "await_llm",
                                          ![t].llm_calls = @ + 1]
                /\ UNCHANGED agent_runs
        /\ UNCHANGED <<enabled, last_messages, session_command_used>>
        /\ UNCHANGED mvars

\* llm_generate returns or raises: return '是' in result / return False
LlmReturns(t, answer) ==
    /\ tasks[t].pc = "await_llm"
    /\ IF answer = "yes"
       THEN CallAgent(t)
       ELSE tasks' = Return(t) /\ UNCHANGED agent_runs
    /\ UNCHANGED <<enabled, last_messages, session_command_used>>
    /\ UNCHANGED mvars

\* ExecuteCommandTool.call, made by the agent while tool_loop_agent runs
ExecuteCommand(t, command_arg) ==
    LET event == tasks[t].event
        command == Strip(command_arg)
        fake_session_id == event.session_id \o FakeSuffix
        fake_event == [message_str |-> wake_word \o command,
                       session_id |-> fake_session_id,
                       obj_session_id |-> fake_session_id,
                       sender_id |-> event.sender_id,
                       self_id |-> event.self_id]
    IN  /\ tasks[t].pc = "await_agent"
        /\ tasks[t].tool_calls < max_steps
        /\ command # <<>> => Len(tasks) < MaxEvents
        /\ IF command = <<>>    \* return "命令不能为空"
           THEN tasks' = [tasks EXCEPT ![t].tool_calls = @ + 1]
           ELSE tasks' = Append([tasks EXCEPT ![t].tool_calls = @ + 1],
                                [event |-> fake_event, pc |-> "start",
                                 stopped |-> FALSE, llm_calls |-> 0,
                                 tool_calls |-> 0])
        /\ UNCHANGED <<enabled, last_messages, session_command_used,
                       agent_runs>>
        /\ UNCHANGED mvars

\* tool_loop_agent returns (mark the session, stop the event) or raises
AgentReturns(t, ok) ==
    /\ tasks[t].pc = "await_agent"
    /\ IF ok
       THEN /\ session_command_used' =
                  session_command_used \cup {tasks[t].event.session_id}
            /\ tasks' = StopAndReturn(t)
       ELSE /\ tasks' = Return(t)
            /\ UNCHANGED session_command_used
    /\ UNCHANGED <<enabled, last_messages, agent_runs>>
    /\ UNCHANGED mvars

\* ai_enable
AiEnable ==
    /\ enabled' = TRUE
    /\ UNCHANGED <<last_messages, session_command_used, tasks, agent_runs>>
    /\ UNCHANGED mvars

\* ai_disable
AiDisable ==
    /\ enabled' = FALSE
    /\ UNCHANGED <<last_messages, session_command_used, tasks, agent_runs>>
    /\ UNCHANGED mvars

-----------------------------------------------------------------------------
(* Inputs of the matcher *)

Qunfenxi == <<"qun", "fen", "xi">>
Qunfenxi7 == <<"qun", "fen", "xi", " ", "7">>
Qunfenxi7Desc ==
    <<"qun", "fen", "xi", " ", "7", "#", "fen", "xi", "qun", "liao">>
Tianqi == <<"tian", "qi">>
Bangzhu == <<"bang", "zhu">>
Shezhi == <<"she", "zhi">>
Xyz123 == <<"x", "y", "z", "1", "2", "3">>

Messages ==
    SeqsUpTo(Letters \cup {" "}, MaxMsgLen)
    \cup {<<"\t">>, <<" ", "\t">>, <<"\t", "a", " ", "b">>,
          Qunfenxi, <<" ">> \o Qunfenxi \o <<"\t", "7">>, Xyz123}

CommandStrings == SeqsUpTo(Letters, MaxCmdLen)

CommandLists ==
    SeqsUpTo(CommandStrings, MaxCmds)
    \cup {<<Tianqi, Bangzhu, Shezhi>>, <<Qunfenxi7Desc, Tianqi, Bangzhu>>,
          <<Shezhi, <<"z">>, <<"1">>>>,
          << <<"a", "b">>, <<"a">> >>, << <<"a", "b">>, <<"b", "a">> >>}

ScenarioInfo ==
    << [plugin_name |-> "p1", cmd_list |-> <<Qunfenxi7Desc>>],
       [plugin_name |-> "p2", cmd_list |-> <<Tianqi, Bangzhu>>] >>

CommandsInfos ==
    { <<>>,
      ScenarioInfo,
      << [plugin_name |-> "p1",
          cmd_list |-> << <<"#", "a">>, <<" ", "a", " ", "#", "b">>, <<"b">> >>] >> }

MatcherInputs ==
    [message : Messages, commands : CommandLists, commands_info : {<<>>}]
    \cup [message : Messages, commands : {<<>>},
          commands_info : CommandsInfos \ {<<>>}]

-----------------------------------------------------------------------------
(* Plugin state after __init__ *)

PluginInit ==
    /\ enabled = TRUE
    /\ last_messages = EmptyDict
    /\ session_command_used = {}
    /\ tasks = <<>>
    /\ agent_runs = EmptyDict

-----------------------------------------------------------------------------
(* Specification of the matcher *)

InitMatch ==
    /\ \E in \in MatcherInputs :
          /\ message = in.message
          /\ commands = in.commands
          /\ commands_info = in.commands_info
    /\ match_result = None
    /\ calls = <<>>
    /\ PluginInit

\* commands_list = self._get_all_available_commands()
GetAllAvailableCommands ==
    /\ calls = <<>>
    /\ commands' = get_all_available_commands(commands_info)
    /\ calls' = Append(calls, "_get_all_available_commands")
    /\ UNCHANGED <<message, commands_info, match_result>>
    /\ UNCHANGED pvars

\* self._find_best_command_match(message, commands)
FindBestCommandMatch ==
    /\ "_find_best_command_match" \notin {calls[i] : i \in DOMAIN calls}
    /\ match_result' = find_best_command_match(message, commands)
    /\ calls' = Append(calls, "_find_best_command_match")
    /\ UNCHANGED <<message, commands, commands_info>>
    /\ UNCHANGED pvars

NextMatch == GetAllAvailableCommands \/ FindBestCommandMatch

SpecMatch == InitMatch /\ [][NextMatch]_vars

-----------------------------------------------------------------------------
(* Properties of the matcher *)

Matched == calls # <<>> /\ calls[Len(calls)] = "_find_best_command_match"
Listed == calls # <<>> /\ calls[1] = "_get_all_available_commands"
IsPair(r) == Len(r) = 2
Parts == Split(message)
Candidate == Parts[1]
Chars(s) == {s[i] : i \in DOMAIN s}
One == [num |-> 1, den |-> 1]
Half == [num |-> 1, den |-> 2]

\* C1: when the first whitespace-delimited token of the message is one of
\* the commands, the matcher returns that token with score 1.0, whatever
\* else is in the list and wherever the token is in it.
C1_ExactTokenScoresOne ==
    (Matched /\ Parts # <<>>
       /\ \E i \in DOMAIN commands : commands[i] = Candidate)
    => /\ IsPair(match_result)
       /\ match_result[1] = Candidate
       /\ Eq(match_result[2], One)

\* the exact token is second in the list, behind a partly similar command,
\* and the message has more tokens after it
C1_Witness ==
    /\ Matched
    /\ Len(Parts) >= 2
    /\ Len(commands) >= 2
    /\ commands[2] = Candidate
    /\ commands[1] # Candidate
    /\ Chars(commands[1]) \cap Chars(Candidate) # {}
    /\ match_result = <<Candidate, ratio(Candidate, Candidate)>>

\* C2: a returned pair holds the maximum ratio over the list and the
\* earliest command, in list order, that attains it.
C2_MaximumEarliestWins ==
    (Matched /\ IsPair(match_result))
    => \E i \in DOMAIN commands :
          /\ match_result[1] = commands[i]
          /\ match_result[2] = ratio(Candidate, commands[i])
          /\ \A j \in DOMAIN commands :
                Ge(match_result[2], ratio(Candidate, commands[j]))
          /\ \A j \in 1..(i - 1) :
                Gt(match_result[2], ratio(Candidate, commands[j]))

\* two different commands tie for the maximum and the first is returned
C2_Witness ==
    /\ Matched
    /\ IsPair(match_result)
    /\ Len(commands) = 2
    /\ commands[1] # commands[2]
    /\ Eq(ratio(Candidate, commands[1]), ratio(Candidate, commands[2]))
    /\ match_result[1] = commands[1]

\* C3 as stated: with at least one token and a non-empty list the matcher
\* always returns a pair.
C3_AlwaysAPair ==
    (Matched /\ Parts # <<>> /\ commands # <<>>) => IsPair(match_result)

\* C3 amended: with at least one token and a non-empty list the matcher
\* returns a pair exactly when some command has a ratio greater than 0
\* (here: shares a character with the candidate), and None otherwise; a
\* positive ratio is never rejected for being low.
C3_PairIffPositiveRatio ==
    (Matched /\ Parts # <<>> /\ commands # <<>>)
    => LET positive == {i \in DOMAIN commands :
                           Gt(ratio(Candidate, commands[i]), best_ratio_init)}
           sharing == {i \in DOMAIN commands :
                          Chars(commands[i]) \cap Chars(Candidate) # {}}
       IN  /\ positive = sharing
           /\ IF positive # {}
              THEN IsPair(match_result) /\ Gt(match_result[2], best_ratio_init)
              ELSE match_result = None

\* a best match is returned although its score is below 0.5
C3_Witness ==
    /\ Matched
    /\ IsPair(match_result)
    /\ Gt(Half, match_result[2])
    /\ Gt(threshold, match_result[2])

\* C4: for an empty command list the matcher returns None for every message.
C4_EmptyListNoMatch ==
    (Matched /\ commands = <<>>) => match_result = None

\* empty list, message with tokens
C4_Witness ==
    /\ Matched
    /\ commands = <<>>
    /\ Len(Parts) >= 2
    /\ match_result = None

\* C5: for an empty or whitespace-only message the matcher returns None
\* for every command list, as a normal result and not as an error.
C5_BlankMessageNoMatch ==
    (Matched /\ \A i \in DOMAIN message : message[i] \in Whitespace)
    => match_result = None /\ match_result # IndexError

\* whitespace-only message of spaces and a tab, non-empty list
C5_Witness ==
    /\ Matched
    /\ Len(message) >= 2
    /\ Chars(message) = Whitespace
    /\ commands # <<>>
    /\ match_result = None

\* C6: every returned score is in [0, 1], and for the candidate and every
\* non-empty command of the list the ratio 2*M/T satisfies 0 <= 2*M <= T.
C6_ScoreInUnitInterval ==
    Matched
    => /\ IsPair(match_result)
          => /\ match_result[2].den > 0
             /\ 0 <= match_result[2].num
             /\ match_result[2].num <= match_result[2].den
       /\ Parts # <<>>
          => \A i \in DOMAIN commands :
                commands[i] # <<>>
                => LET r == ratio(Candidate, commands[i])
                   IN  r.den > 0 /\ 0 <= r.num /\ r.num <= r.den

\* a score strictly between 0 and 1 next to a command scoring 1.0
C6_Witness ==
    /\ Matched
    /\ IsPair(match_result)
    /\ Eq(match_result[2], One)
    /\ \E i \in DOMAIN commands :
          LET r == ratio(Candidate, commands[i])
          IN  0 < r.num /\ r.num < r.den

-----------------------------------------------------------------------------
(* Specification of the plugin *)

InboundMessages ==
    { <<"/", "a">>,                    \* wake word command
      <<" ", "#", "a">>,               \* '#' command behind a space
      <<"!", "a">>,                    \* '!' command
      <<"a", "i", "_", "s", "t", "a", "t", "u", "s">>,
      <<"bang", "wo", "a">>,           \* holds a call keyword
      <<"a", "b">> }                   \* left to the LLM classifier

InboundEvents ==
    { [message_str |-> m, session_id |-> s, obj_session_id |-> s,
       sender_id |-> "user", self_id |-> "bot"] :
          m \in InboundMessages, s \in Sessions }
    \cup
    { [message_str |-> <<"a", "b">>, session_id |-> s, obj_session_id |-> s,
       sender_id |-> "bot", self_id |-> "bot"] : s \in Sessions }

ToolCommands == {<<" ">>, <<"a">>}

Init ==
    /\ PluginInit
    /\ message = <<>>
    /\ commands = <<>>
    /\ commands_info = <<>>
    /\ match_result = None
    /\ calls = <<>>

Next ==
    \/ \E event \in InboundEvents : Receive(event)
    \/ \E t \in DOMAIN tasks : HandleMessage(t)
    \/ \E t \in DOMAIN tasks, outcome \in {"raise", "none", "provider"} :
          ProviderReturns(t, outcome)
    \/ \E t \in DOMAIN tasks, answer \in {"yes", "no", "raise"} :
          LlmReturns(t, answer)
    \/ \E t \in DOMAIN tasks, command \in ToolCommands :
          ExecuteCommand(t, command)
    \/ \E t \in DOMAIN tasks, ok \in BOOLEAN : AgentReturns(t, ok)
    \/ AiEnable
    \/ AiDisable

Spec == Init /\ [][Next]_vars

-----------------------------------------------------------------------------
(* Properties of the plugin *)

StrippedMessage(t) == Strip(tasks[t].event.message_str)

\* an event that handle_message, when enabled, takes up to the provider lookup
Processable(t) ==
    /\ ~is_self_message(tasks[t].event)
    /\ ~is_fake_event(tasks[t].event)
    /\ ~is_command_message(StrippedMessage(t))
    /\ ~is_control_command(StrippedMessage(t))

C9_CommandMessagesNeverIntercepted ==
    \A t \in DOMAIN tasks :
        is_command_message(StrippedMessage(t))
        => /\ ~tasks[t].stopped
           /\ tasks[t].llm_calls = 0
           /\ tasks[t].pc \notin {"await_llm", "await_agent"}

\* C10: at most one tool_loop_agent call is ever started per session id.
C10_AtMostOneAgentRunPerSession ==
    \A session_id \in DOMAIN agent_runs : agent_runs[session_id] <= 1

====
